---- MODULE Spec2Model ----
(***************************************************************************)
(* VaultKeeper Claude Integration (src/app.py).                            *)
(*                                                                         *)
(* A Flask application with one shared ProductionClaudeService instance.   *)
(* Every inbound request is handled by a worker thread; the only shared    *)
(* mutable state is claude_service.task_counter.  The model follows each   *)
(* worker through its route handler and through process_agent_task, with   *)
(* the read, the write and the later re-read of task_counter as separate   *)
(* steps, because nothing in the code makes them one.                      *)
(***************************************************************************)
EXTENDS Naturals, Sequences, FiniteSets

(* ---------------------------- bounds ----------------------------------- *)
NumThreads == 2      \* worker threads of the web runtime
MaxClock == 1        \* UTC seconds the wall clock may advance
MaxBatch == 2        \* descriptors in one batch request
MaxSeq == 1001       \* ids the service may have generated before a run

Threads == 1 .. NumThreads

VARIABLES
    task_counter,   \* ProductionClaudeService.task_counter
    now,            \* wall clock, UTC seconds after 00:00:00 of the day
    pc,             \* pc[t]: position of worker t
    route,          \* route[t]: the endpoint worker t is serving
    tasks,          \* tasks[t]: the descriptors of the batch request
    idx,            \* idx[t]: position of the batch loop (1-based)
    results,        \* results[t]: the batch handler's results list
    task,           \* task[t]: the AgentTask being processed
    task0,          \* task[t] as the route handler constructed it
    reg,            \* reg[t]: task_counter as loaded by `+= 1`
    ret,            \* ret[t]: how process_agent_task ended
    outcome,        \* outcome[t]: what the outbound call just did
    resp,           \* resp[t]: the HTTP response of the handler
    generated,      \* every generated task_id, in order of assignment
    ndisp           \* ndisp[t]: process_agent_task calls of this request

vars == << task_counter, now, pc, route, tasks, idx, results, task, task0,
           reg, ret, outcome, resp, generated, ndisp >>

(* ------------------------- JSON values --------------------------------- *)
\* A field of a JSON mapping as dict.get sees it.
Absent == [k |-> "absent"]
Null == [k |-> "null"]
Int(n) == [k |-> "int", v |-> n]
Str(s) == [k |-> "str", v |-> s]
List == [k |-> "list"]          \* a non-empty JSON array, [1]


\* Python truthiness of a value, as `not task.task_id` uses it: None, "", 0
\* are falsy; a non-empty string or list is truthy.
Truthy(v) ==
    /\ v.k # "null"
    /\ v.k = "str" => v.v # ""
    /\ v.k = "int" => v.v # 0

\* dict.get(key, default) on a field of a parsed JSON mapping.
Get(field, default) == IF field = Absent THEN default ELSE field

\* Whether a value can be a dictionary key (lists cannot: TypeError).
Hashable(v) == v.k # "list"

\* str(v), as an f-string renders an agent name (a string, or the array).
Text(v) == IF v.k = "str" THEN v.v ELSE "[1]"

(* --------------------- formatting of generated ids --------------------- *)
DigitChar == << "0", "1", "2", "3", "4", "5", "6", "7", "8", "9" >>

RECURSIVE Digits(_)
\* The decimal digits of n, most significant first.
Digits(n) == IF n < 10 THEN << n >> ELSE Append(Digits(n \div 10), n % 10)

RECURSIVE ZeroPad(_, _)
\* ds left-padded with zeros to a width of at least w.
ZeroPad(ds, w) == IF Len(ds) >= w THEN ds ELSE ZeroPad(<< 0 >> \o ds, w)

\* f"{n:03d}": zero-padded to a MINIMUM width of three.
Format03d(n) == ZeroPad(Digits(n), 3)

RECURSIVE DigitText(_)
DigitText(ds) ==
    IF ds = << >> THEN "" ELSE DigitChar[Head(ds) + 1] \o DigitText(Tail(ds))

\* The day the model's clock runs in, as strftime('%Y%m%d') renders it.
Today == << 2, 0, 2, 5, 0, 1, 0, 1 >>

\* strftime('%H%M%S') of the clock value (seconds after midnight).
TimeOfDay(clock) ==
    ZeroPad(Digits(clock \div 3600), 2)
        \o ZeroPad(Digits((clock \div 60) % 60), 2)
        \o ZeroPad(Digits(clock % 60), 2)

\* The id line 58 builds, kept with its parts and with the string itself.
MakeTaskId(agent_name, clock, counter) ==
    [ agent |-> Text(agent_name),
      date |-> Today,
      time |-> TimeOfDay(clock),
      seq |-> Format03d(counter),
      text |-> Text(agent_name) \o "_" \o DigitText(Today) \o "_"
                 \o DigitText(TimeOfDay(clock)) \o "_"
                 \o DigitText(Format03d(counter)) ]


(* ------------------------ the outbound call ---------------------------- *)
\* Exception classes and the classes an `except` clause matches them by.
Bases(exc) ==
    CASE exc = "ReadTimeout" ->
            { "ReadTimeout", "Timeout", "RequestException", "Exception" }
      [] exc = "ConnectTimeout" ->
            { "ConnectTimeout", "ConnectionError", "Timeout",
              "RequestException", "Exception" }
      [] exc = "ConnectionError" ->
            { "ConnectionError", "RequestException", "Exception" }
      [] exc = "HTTPError" -> { "HTTPError", "RequestException", "Exception" }
      [] exc = "JSONDecodeError" ->
            { "JSONDecodeError", "RequestException", "ValueError", "Exception" }
      [] OTHER -> { exc, "Exception" }

\* What requests.post may do: raise, or return a response.
PostExceptions == { "ReadTimeout", "ConnectTimeout", "ConnectionError" }
\* A field of the upstream `usage` object.
InputCounts == { Absent, Null, Int(50) }
OutputCounts == { Absent, Null, Int(120) }

\* The upstream `usage`: missing, null, or an object.
Usages ==
    { Absent, Null }
        \cup { [k |-> "dict", input_tokens |-> i, output_tokens |-> o] :
                 i \in InputCounts, o \in OutputCounts }

\* Response bodies: not JSON; an object whose `content` is missing, is
\* empty, or starts with a text block.
Bodies ==
    { [shape |-> "notjson"] }
        \cup { [shape |-> "dict", content |-> c, usage |-> Absent] :
                 c \in { "missing", "empty" } }
        \cup { [shape |-> "dict", content |-> "text", usage |-> u] : u \in Usages }

Outcomes ==
    { [kind |-> "raise", exc |-> e] : e \in PostExceptions }
        \cup { [kind |-> "response", status |-> s, body |-> [shape |-> "notjson"]] :
                 s \in { 404, 500 } }
        \cup { [kind |-> "response", status |-> s, body |-> b] :
                 s \in { 200 }, b \in Bodies }

Raise(e) == [kind |-> "raise", exc |-> e]
Value(v) == [kind |-> "return", value |-> v]

\* response.raise_for_status(): HTTPError for 4xx and 5xx.
RaisesForStatus(status) == status >= 400 /\ status < 600

\* (a variant that forgets the output tokens)
TokensUsedInputOnly(usage) ==
    IF usage = Null THEN Raise("AttributeError")
    ELSE LET u == IF usage = Absent
                    THEN [k |-> "dict", input_tokens |-> Absent,
                          output_tokens |-> Absent]
                    ELSE usage
             i == Get(u.input_tokens, Int(0))
             o == Get(u.output_tokens, Int(0))
         IN  IF i = Null \/ o = Null THEN Raise("TypeError")
             ELSE Value(i.v)

\* claude_data.get('usage', {}).get(name, 0) for the two token fields and
\* their sum (line 94): a null usage has no .get, a null field cannot be added.
TokensUsed(usage) ==
    IF usage = Null THEN Raise("AttributeError")
    ELSE LET u == IF usage = Absent
                    THEN [k |-> "dict", input_tokens |-> Absent,
                          output_tokens |-> Absent]
                    ELSE usage
             i == Get(u.input_tokens, Int(0))
             o == Get(u.output_tokens, Int(0))
         IN  IF i = Null \/ o = Null THEN Raise("TypeError")
             ELSE Value(i.v + o.v)

\* claude_data['content'][0]['text'] (line 84).
FirstText(body) ==
    CASE body.content = "missing" -> Raise("KeyError")
      [] body.content = "empty" -> Raise("IndexError")
      [] OTHER -> Value("Findings: ...")

\* _create_error_response (the envelope's timestamp is not kept).
CreateErrorResponse(tk, error_message) ==
    [ task_id |-> tk.task_id,
      status |-> "error",
      agent |-> tk.agent_name,
      task_type |-> tk.task_type,
      error |-> error_message ]

\* (a variant whose catch-all clause comes first)
HandleCatchAllFirst(tk, exc) ==
    IF "Exception" \in Bases(exc)
    THEN CreateErrorResponse(tk, "Unexpected error: " \o exc)
    ELSE IF "Timeout" \in Bases(exc)
    THEN CreateErrorResponse(tk, "Request timeout - Claude API took too long")
    ELSE CreateErrorResponse(tk, "HTTP Error: " \o exc)

\* The three except clauses of process_agent_task, in their order; str(e)
\* is rendered as the name of the exception's class.
Handle(tk, exc) ==
    IF "Timeout" \in Bases(exc)
    THEN CreateErrorResponse(tk, "Request timeout - Claude API took too long")
    ELSE IF "HTTPError" \in Bases(exc)
    THEN CreateErrorResponse(tk, "HTTP Error: " \o exc)
    ELSE CreateErrorResponse(tk, "Unexpected error: " \o exc)

\* The try block (lines 69-98): the call, raise_for_status, the parse and
\* the Success envelope (its timestamp is not kept); what it returns or
\* raises.
TryBlock(tk, oc) ==
    IF oc.kind = "raise" THEN Raise(oc.exc)
    ELSE IF RaisesForStatus(oc.status) THEN Raise("HTTPError")
    ELSE IF oc.body.shape = "notjson" THEN Raise("JSONDecodeError")
    ELSE LET txt == FirstText(oc.body)
         IN  IF txt.kind = "raise" THEN txt
             ELSE LET tok == TokensUsed(oc.body.usage)
                  IN  IF tok.kind = "raise" THEN tok
                      ELSE Value([ task_id |-> tk.task_id,
                                   status |-> "completed",
                                   agent |-> tk.agent_name,
                                   task_type |-> tk.task_type,
                                   claude_analysis |-> txt.value,
                                   tokens_used |-> tok.value ])

\* _create_vaultkeeper_prompt: the guidance lookup keys a dict by agent_name
\* (TypeError for an unhashable name); json.dumps of content parsed from
\* JSON cannot fail.  The prompt text itself is not kept.
CreatePromptRaises(tk) == ~Hashable(tk.agent_name)

\* Lines 69-110: the try block and its except clauses; always an envelope.
CallClaude(tk, oc) ==
    LET r == TryBlock(tk, oc)
    IN  IF r.kind = "raise" THEN Handle(tk, r.exc) ELSE r.value


(* --------------------------- request data ------------------------------ *)
\* An AgentTask (the dataclass of lines 28-36).
AgentTask(agent_name, task_type, content, task_id, priority, context) ==
    [ agent_name |-> agent_name, task_type |-> task_type, content |-> content,
      task_id |-> task_id, priority |-> priority, context |-> context ]

NoTask == [k |-> "none"]
NoRet == [kind |-> "none"]
NoOutcome == [kind |-> "none"]
NoResp == [status |-> 0]

\* What request.get_json() hands a handler that is not a JSON object:
\* a body it rejects, a JSON array, JSON null.
NotMapping == { [k |-> "malformed"], List, Null }

\* The JSON object posted to one of the four agent endpoints.
DelegateData ==
    NotMapping
        \cup { [k |-> "dict", task_type |-> ty, task_id |-> id] :
                 ty \in { Absent, Str("audit") },
                 id \in { Absent, Str(""), Str("T1") } }

\* One entry of a batch request's `tasks` list: a JSON object, or not one.
Descriptor(agent_name, task_type, task_id) ==
    [ k |-> "dict", agent_name |-> agent_name, task_type |-> task_type,
      task_id |-> task_id ]

Descriptors ==
    { Str("oops"),
      Descriptor(Absent, Absent, Absent),
      Descriptor(Str("PatentAI"), Str("audit"), Str("T1")),
      Descriptor(List, Absent, Absent) }

RECURSIVE SeqsUpTo(_, _)
\* The sequences over S of length at most n.
SeqsUpTo(S, n) ==
    IF n = 0 THEN { << >> }
    ELSE LET shorter == SeqsUpTo(S, n - 1)
         IN  shorter \cup { Append(q, x) : q \in shorter, x \in S }

\* The JSON object posted to the batch endpoint (`tasks` defaults to []).
BatchData ==
    NotMapping
        \cup { [k |-> "dict", tasks |-> q] : q \in SeqsUpTo(Descriptors, MaxBatch) }

\* The fixed agent name and the defaults of each agent endpoint.
Endpoint(name) ==
    CASE name = "monique" ->
            [ agent |-> "Monique", task_type |-> "strategic_analysis",
              priority |-> "high", context |-> "CEO strategic delegation" ]
      [] name = "coordinator" ->
            [ agent |-> "CoordinatorAI", task_type |-> "file_management",
              priority |-> "medium",
              context |-> "File organization and workspace management" ]
      [] name = "patent" ->
            [ agent |-> "PatentAI", task_type |-> "patent_analysis",
              priority |-> "high", context |-> "Patent analysis and IP strategy" ]
      [] OTHER ->
            [ agent |-> "CFOAI", task_type |-> "financial_analysis",
              priority |-> "high", context |-> "Financial analysis and IP valuation" ]

\* The `except Exception` body of a route handler: a JSON error, HTTP 500
\* (its "error" text, str(e), is not kept).
RouteError(agent) ==
    [ status |-> 500, body |-> [status |-> "error", agent |-> agent] ]

\* jsonify(x) with the implied status 200.
Jsonify(x) == [ status |-> 200, body |-> x ]

(* ------------------------------ state ---------------------------------- *)
Init ==
    /\ task_counter = 0
    /\ now = 0
    /\ pc = [t \in Threads |-> "idle"]
    /\ route = [t \in Threads |-> "none"]
    /\ tasks = [t \in Threads |-> << >>]
    /\ idx = [t \in Threads |-> 0]
    /\ results = [t \in Threads |-> << >>]
    /\ task = [t \in Threads |-> NoTask]
    /\ task0 = [t \in Threads |-> NoTask]
    /\ reg = [t \in Threads |-> 0]
    /\ ret = [t \in Threads |-> NoRet]
    /\ outcome = [t \in Threads |-> NoOutcome]
    /\ resp = [t \in Threads |-> NoResp]
    /\ generated = << >>
    /\ ndisp = [t \in Threads |-> 0]

\* The wall clock advances by a second.
Tick ==
    /\ now < MaxClock
    /\ now' = now + 1
    /\ UNCHANGED << task_counter, pc, route, tasks, idx, results, task, task0,
                    reg, ret, outcome, resp, generated, ndisp >>

(* ----------------------- the agent endpoints --------------------------- *)
\* monique_delegate, coordinator_handoff, patent_collaborate, cfo_consult up
\* to the call of process_agent_task: parse the body, build the AgentTask.
Delegate(t, name, data) ==
    /\ pc[t] = "idle"
    /\ route' = [route EXCEPT ![t] = name]
    /\ IF data.k # "dict"
       THEN /\ resp' = [resp EXCEPT ![t] = RouteError(Endpoint(name).agent)]
            /\ pc' = [pc EXCEPT ![t] = "responded"]
            /\ UNCHANGED << task, task0, ndisp >>
       ELSE LET tk == AgentTask(Str(Endpoint(name).agent),
                                Get(data.task_type, Str(Endpoint(name).task_type)),
                                "{}",
                                Get(data.task_id, Null),
                                Endpoint(name).priority,
                                Endpoint(name).context)
            IN  /\ task' = [task EXCEPT ![t] = tk]
                /\ task0' = [task0 EXCEPT ![t] = tk]
                /\ ndisp' = [ndisp EXCEPT ![t] = @ + 1]
                /\ pc' = [pc EXCEPT ![t] = "process"]
                /\ UNCHANGED resp
    /\ UNCHANGED << task_counter, now, tasks, idx, results, reg, ret, outcome,
                    generated >>

monique_delegate(t, data) == Delegate(t, "monique", data)
coordinator_handoff(t, data) == Delegate(t, "coordinator", data)
patent_collaborate(t, data) == Delegate(t, "patent", data)
cfo_consult(t, data) == Delegate(t, "cfo", data)

\* The rest of an agent endpoint: jsonify(result), or the except clause
\* when process_agent_task raised.
DelegateReturn(t) ==
    /\ pc[t] = "returned"
    /\ route[t] \in { "monique", "coordinator", "patent", "cfo" }
    /\ resp' = [resp EXCEPT ![t] =
                  IF ret[t].kind = "raise"
                  THEN RouteError(Endpoint(route[t]).agent)
                  ELSE Jsonify(ret[t].value)]
    /\ pc' = [pc EXCEPT ![t] = "responded"]
    /\ UNCHANGED << task_counter, now, route, tasks, idx, results, task, task0,
                    reg, ret, outcome, generated, ndisp >>


(* ------------------------ process_agent_task --------------------------- *)
\* Line 56 with a falsy task_id, and the read of `self.task_counter += 1`.
ProcGenLoad(t) ==
    /\ pc[t] = "process"
    /\ ~Truthy(task[t].task_id)
    /\ reg' = [reg EXCEPT ![t] = task_counter]
    /\ pc' = [pc EXCEPT ![t] = "gen_store"]
    /\ UNCHANGED << task_counter, now, route, tasks, idx, results, task, task0,
                    ret, outcome, resp, generated, ndisp >>

\* (a variant that stores the counter back unchanged)
ProcGenStoreNoIncrement(t) ==
    /\ pc[t] = "gen_store"
    /\ task_counter' = reg[t]
    /\ pc' = [pc EXCEPT ![t] = "gen_format"]
    /\ UNCHANGED << now, route, tasks, idx, results, task, task0, reg, ret,
                    outcome, resp, generated, ndisp >>

\* The write of `self.task_counter += 1`.
ProcGenStore(t) ==
    /\ pc[t] = "gen_store"
    /\ task_counter' = reg[t] + 1
    /\ pc' = [pc EXCEPT ![t] = "gen_format"]
    /\ UNCHANGED << now, route, tasks, idx, results, task, task0, reg, ret,
                    outcome, resp, generated, ndisp >>

\* Line 58: the id is formatted from the counter as it is read now.
ProcGenFormat(t) ==
    /\ pc[t] = "gen_format"
    /\ LET id == MakeTaskId(task[t].agent_name, now, task_counter)
       IN  /\ task' = [task EXCEPT ![t].task_id = Str(id.text)]
           /\ generated' = Append(generated, id)
    /\ pc' = [pc EXCEPT ![t] = "call"]
    /\ UNCHANGED << task_counter, now, route, tasks, idx, results, task0, reg,
                    ret, outcome, resp, ndisp >>

\* (a variant that generates an id whether or not one was given)
ProcKeepIdRegenerates(t) ==
    /\ pc[t] = "process"
    /\ Truthy(task[t].task_id)
    /\ reg' = [reg EXCEPT ![t] = task_counter]
    /\ pc' = [pc EXCEPT ![t] = "gen_store"]
    /\ UNCHANGED << task_counter, now, route, tasks, idx, results, task, task0,
                    ret, outcome, resp, generated, ndisp >>

\* Line 56 with a truthy task_id: nothing is generated.
ProcKeepId(t) ==
    /\ pc[t] = "process"
    /\ Truthy(task[t].task_id)
    /\ pc' = [pc EXCEPT ![t] = "call"]
    /\ UNCHANGED << task_counter, now, route, tasks, idx, results, task, task0,
                    reg, ret, outcome, resp, generated, ndisp >>

\* Line 61 when the prompt cannot be built: it stands before the try
\* block, so the exception leaves process_agent_task.
ProcPromptRaises(t) ==
    /\ pc[t] = "call"
    /\ CreatePromptRaises(task[t])
    /\ ret' = [ret EXCEPT ![t] = Raise("TypeError")]
    /\ pc' = [pc EXCEPT ![t] = "returned"]
    /\ UNCHANGED << task_counter, now, route, tasks, idx, results, task, task0,
                    reg, outcome, resp, generated, ndisp >>

\* Lines 61-110 otherwise: the prompt, the outbound call with outcome oc,
\* the envelope; the worker is back in its route handler.
ProcCall(t, oc) ==
    /\ pc[t] = "call"
    /\ ~CreatePromptRaises(task[t])
    /\ ret' = [ret EXCEPT ![t] = Value(CallClaude(task[t], oc))]
    /\ outcome' = [outcome EXCEPT ![t] = oc]
    /\ pc' = [pc EXCEPT ![t] = "returned"]
    /\ UNCHANGED << task_counter, now, route, tasks, idx, results, task, task0,
                    reg, resp, generated, ndisp >>

(* --------------------------- batch_process ----------------------------- *)
\* The except clause of batch_process: a JSON error without results, 500
\* (its "error" text, str(e), is not kept).
BatchError == [ status |-> 500, body |-> [status |-> "error"] ]

\* The batch envelope of lines 360-365 (its timestamp is not kept).
BatchEnvelope(tks, res, clock) ==
    Jsonify([ batch_id |-> "BATCH_" \o DigitText(Today) \o "_"
                            \o DigitText(TimeOfDay(clock)),
              total_tasks |-> Len(tks),
              results |-> res ])

\* Lines 343-346: parse the body, take `tasks`, start with no results.
batch_process(t, data) ==
    /\ pc[t] = "idle"
    /\ route' = [route EXCEPT ![t] = "batch"]
    /\ IF data.k # "dict"
       THEN /\ resp' = [resp EXCEPT ![t] = BatchError]
            /\ pc' = [pc EXCEPT ![t] = "responded"]
            /\ UNCHANGED << tasks, idx >>
       ELSE /\ tasks' = [tasks EXCEPT ![t] = data.tasks]
            /\ idx' = [idx EXCEPT ![t] = 1]
            /\ pc' = [pc EXCEPT ![t] = "loop"]
            /\ UNCHANGED resp
    /\ UNCHANGED << task_counter, now, results, task, task0, reg, ret, outcome,
                    generated, ndisp >>

\* Lines 347-357: the next descriptor becomes an AgentTask and is dispatched.
BatchItem(t) ==
    /\ pc[t] = "loop"
    /\ idx[t] <= Len(tasks[t])
    /\ tasks[t][idx[t]].k = "dict"
    /\ LET task_data == tasks[t][idx[t]]
           tk == AgentTask(Get(task_data.agent_name, Str("BatchProcessor")),
                           Get(task_data.task_type, Str("batch_analysis")),
                           "{}",
                           Get(task_data.task_id, Null),
                           "medium",
                           "Batch processing operation")
       IN  /\ task' = [task EXCEPT ![t] = tk]
           /\ task0' = [task0 EXCEPT ![t] = tk]
    /\ ndisp' = [ndisp EXCEPT ![t] = @ + 1]
    /\ pc' = [pc EXCEPT ![t] = "process"]
    /\ UNCHANGED << task_counter, now, route, tasks, idx, results, reg, ret,
                    outcome, resp, generated >>

\* (a variant that skips a bad descriptor and goes on)
BatchItemRaisesSkips(t) ==
    /\ pc[t] = "loop"
    /\ idx[t] <= Len(tasks[t])
    /\ tasks[t][idx[t]].k # "dict"
    /\ idx' = [idx EXCEPT ![t] = @ + 1]
    /\ UNCHANGED << task_counter, now, pc, route, tasks, results, task, task0,
                    reg, ret, outcome, resp, generated, ndisp >>

\* Line 349 on a descriptor that is no mapping: task_data.get raises, the
\* except clause answers.
BatchItemRaises(t) ==
    /\ pc[t] = "loop"
    /\ idx[t] <= Len(tasks[t])
    /\ tasks[t][idx[t]].k # "dict"
    /\ resp' = [resp EXCEPT ![t] = BatchError]
    /\ pc' = [pc EXCEPT ![t] = "responded"]
    /\ UNCHANGED << task_counter, now, route, tasks, idx, results, task, task0,
                    reg, ret, outcome, generated, ndisp >>

\* Line 358, or the except clause when process_agent_task raised.
BatchReturn(t) ==
    /\ pc[t] = "returned"
    /\ route[t] = "batch"
    /\ IF ret[t].kind = "raise"
       THEN /\ resp' = [resp EXCEPT ![t] = BatchError]
            /\ pc' = [pc EXCEPT ![t] = "responded"]
            /\ UNCHANGED << results, idx >>
       ELSE /\ results' = [results EXCEPT ![t] = Append(@, ret[t].value)]
            /\ idx' = [idx EXCEPT ![t] = @ + 1]
            /\ pc' = [pc EXCEPT ![t] = "loop"]
            /\ UNCHANGED resp
    /\ outcome' = [outcome EXCEPT ![t] = NoOutcome]
    /\ UNCHANGED << task_counter, now, route, tasks, task, task0, reg, ret,
                    generated, ndisp >>

\* Lines 360-365: the loop is over, the batch envelope is returned.
BatchDone(t) ==
    /\ pc[t] = "loop"
    /\ idx[t] > Len(tasks[t])
    /\ resp' = [resp EXCEPT ![t] = BatchEnvelope(tasks[t], results[t], now)]
    /\ pc' = [pc EXCEPT ![t] = "responded"]
    /\ UNCHANGED << task_counter, now, route, tasks, idx, results, task, task0,
                    reg, ret, outcome, generated, ndisp >>

(* ---------------------------- health_check ----------------------------- *)
\* What the probe of /health may do.
Probes ==
    { [kind |-> "raise", exc |-> e] :
        e \in PostExceptions \cup { "SSLError" } }
        \cup { [kind |-> "response", status |-> s] :
                 s \in { 200, 201, 204, 401, 429, 500 } }

\* (a variant that takes any 2xx for healthy)
ClaudeHealthyAny2xx(probe) ==
    probe.kind = "response" /\ probe.status >= 200 /\ probe.status < 300

\* Lines 199-224: claude_healthy.
ClaudeHealthy(probe) == probe.kind = "response" /\ probe.status = 200

\* GET /health (lines 196-233): the probe, then the report, which is
\* built after the try block from claude_healthy alone.
health_check(t, probe) ==
    /\ pc[t] = "idle"
    /\ route' = [route EXCEPT ![t] = "health"]
    /\ outcome' = [outcome EXCEPT ![t] = probe]
    /\ resp' = [resp EXCEPT ![t] =
                  Jsonify([ status |-> IF ClaudeHealthy(probe)
                                        THEN "healthy" ELSE "degraded",
                            claude_api |-> IF ClaudeHealthy(probe)
                                            THEN "connected" ELSE "disconnected" ])]
    /\ pc' = [pc EXCEPT ![t] = "responded"]
    /\ UNCHANGED << task_counter, now, tasks, idx, results, task, task0, reg,
                    ret, generated, ndisp >>

(* --------------------------- specifications ---------------------------- *)
\* One step of worker t, with every input the request or the upstream
\* may supply.
Step(t) ==
    \/ \E data \in DelegateData : monique_delegate(t, data)
    \/ \E data \in DelegateData : coordinator_handoff(t, data)
    \/ \E data \in DelegateData : patent_collaborate(t, data)
    \/ \E data \in DelegateData : cfo_consult(t, data)
    \/ DelegateReturn(t)
    \/ ProcGenLoad(t)
    \/ ProcGenStore(t)
    \/ ProcGenFormat(t)
    \/ ProcKeepId(t)
    \/ ProcPromptRaises(t)
    \/ \E oc \in Outcomes : ProcCall(t, oc)
    \/ \E data \in BatchData : batch_process(t, data)
    \/ BatchItem(t)
    \/ BatchItemRaises(t)
    \/ BatchReturn(t)
    \/ BatchDone(t)
    \/ \E probe \in Probes : health_check(t, probe)

\* The worker that serves the request when requests do not overlap.
First == { t \in Threads : \A u \in Threads : t <= u }

\* One request, of any kind and with any input, served with no other
\* request in progress.
Next == Tick \/ \E t \in First : Step(t)

Spec == Init /\ [][Next]_vars

\* A body for an agent endpoint that names no task_id.
PlainData == [k |-> "dict", task_type |-> Absent, task_id |-> Absent]

\* Outbound outcomes of the requests of the two specifications below.
PlainOutcomes ==
    { [kind |-> "raise", exc |-> "ReadTimeout"],
      [kind |-> "response", status |-> 200,
       body |-> [shape |-> "dict", content |-> "text", usage |-> Absent]] }

\* One step of worker t serving a request without task_id to an agent
\* endpoint.
PlainStep(t) ==
    \/ monique_delegate(t, PlainData)
    \/ patent_collaborate(t, PlainData)
    \/ ProcGenLoad(t)
    \/ ProcGenStore(t)
    \/ ProcGenFormat(t)
    \/ \E oc \in PlainOutcomes : ProcCall(t, oc)
    \/ DelegateReturn(t)

\* Requests served by concurrent workers (app.run serves each request in
\* its own thread), one request per worker.
ConcNext == Tick \/ \E t \in Threads : PlainStep(t)

ConcSpec == Init /\ [][ConcNext]_vars

\* The service after any number of earlier generated ids: a request
\* served alone, the counter anywhere up to MaxSeq.
CounterInit ==
    /\ task_counter \in 0 .. MaxSeq
    /\ now = 0
    /\ pc = [t \in Threads |-> "idle"]
    /\ route = [t \in Threads |-> "none"]
    /\ tasks = [t \in Threads |-> << >>]
    /\ idx = [t \in Threads |-> 0]
    /\ results = [t \in Threads |-> << >>]
    /\ task = [t \in Threads |-> NoTask]
    /\ task0 = [t \in Threads |-> NoTask]
    /\ reg = [t \in Threads |-> 0]
    /\ ret = [t \in Threads |-> NoRet]
    /\ outcome = [t \in Threads |-> NoOutcome]
    /\ resp = [t \in Threads |-> NoResp]
    /\ generated = << >>
    /\ ndisp = [t \in Threads |-> 0]

CounterNext == Tick \/ \E t \in First : PlainStep(t)

CounterSpec == CounterInit /\ [][CounterNext]_vars

(* ------------------------------ claims --------------------------------- *)
TimeoutMessage == "Request timeout - Claude API took too long"

\* The AgentTask fields a batch descriptor asks for.
WantedAgent(d) == Get(d.agent_name, Str("BatchProcessor"))
WantedType(d) == Get(d.task_type, Str("batch_analysis"))
WantedId(d) == Get(d.task_id, Null)

\* The positions before k whose descriptor leaves the id to the service.
Unset(tks, k) == { i \in 1 .. (k - 1) : ~Truthy(WantedId(tks[i])) }

\* C1: process_agent_task is total: however it ends, it ends by returning
\* an envelope whose status is "completed" or "error"; no exception leaves
\* it, the steps before the outbound call included.
C1_ProcessTotal ==
    \A t \in Threads :
        pc[t] = "returned" =>
            /\ ret[t].kind = "return"
            /\ ret[t].value.status \in { "completed", "error" }

\* C2: calls made one after another on the same service with unset task_id
\* are assigned pairwise distinct ids, also for the same agent name within
\* the same UTC second.
C2_DistinctIds ==
    \A i, j \in 1 .. Len(generated) :
        i < j => generated[i].text # generated[j].text

C2_SameAgentSameSecond ==
    \E i, j \in 1 .. Len(generated) :
        /\ i < j
        /\ generated[i].agent = generated[j].agent
        /\ generated[i].time = generated[j].time

\* C3: with concurrent calls, the counter is incremented atomically: no two
\* calls obtain the same sequence value, no increment is lost, and so no
\* generated id occurs twice.
C3_AtomicCounter ==
    /\ \A i, j \in 1 .. Len(generated) :
          i < j => /\ generated[i].seq # generated[j].seq
                   /\ generated[i].text # generated[j].text
    /\ (\A t \in Threads : pc[t] # "gen_store") =>
          task_counter =
              Cardinality({ t \in Threads :
                              pc[t] \in { "gen_format", "call", "returned",
                                          "responded" } })

\* C4: an outbound call that times out yields the Failure envelope with the
\* timeout message; an HTTP status error yields "HTTP Error: ...", any other
\* exception "Unexpected error: ...": each outcome is reported by the first
\* clause that matches it, tried in the order timeout, HTTP error, catch-all.
C4_TimeoutFirst ==
    \A t \in Threads :
        (pc[t] = "returned" /\ outcome[t].kind # "none") =>
            LET oc == outcome[t]
                env == ret[t].value
                timed_out == oc.kind = "raise"
                                /\ oc.exc \in { "ReadTimeout", "ConnectTimeout" }
                bad_status == oc.kind = "response" /\ oc.status >= 400
            IN  /\ ret[t].kind = "return"
                /\ timed_out => env.status = "error" /\ env.error = TimeoutMessage
                /\ bad_status =>
                      env.status = "error" /\ env.error = "HTTP Error: HTTPError"
                /\ (env.status = "error" /\ ~timed_out /\ ~bad_status) =>
                      env.error \notin { TimeoutMessage, "HTTP Error: HTTPError" }

C4_ConnectTimeoutReported ==
    \E t \in Threads :
        /\ pc[t] = "returned"
        /\ outcome[t] = [kind |-> "raise", exc |-> "ConnectTimeout"]
        /\ ret[t].kind = "return"
        /\ ret[t].value.error = TimeoutMessage

\* What a field of `usage` counts for: zero when absent.
Counted(field) == IF field = Absent THEN 0 ELSE field.v

\* C5: every Success envelope has tokens_used = input_tokens + output_tokens
\* of the upstream usage, each counted as 0 when absent, the whole usage as
\* empty when absent; so tokens_used >= 0, and 0 when the fields are absent.
C5_TokensUsed ==
    \A t \in Threads :
        (pc[t] = "returned" /\ ret[t].kind = "return"
            /\ ret[t].value.status = "completed") =>
            LET u == outcome[t].body.usage
                used == ret[t].value.tokens_used
            IN  /\ outcome[t].kind = "response"
                /\ u # Null
                /\ u = Absent => used = 0
                /\ u # Absent =>
                      /\ u.input_tokens # Null /\ u.output_tokens # Null
                      /\ used = Counted(u.input_tokens) + Counted(u.output_tokens)
                /\ used >= 0

C5_FiftyPlusHundredTwenty ==
    \E t \in Threads :
        /\ pc[t] = "returned"
        /\ outcome[t].kind = "response"
        /\ outcome[t].body =
              [ shape |-> "dict", content |-> "text",
                usage |-> [k |-> "dict", input_tokens |-> Int(50),
                           output_tokens |-> Int(120)] ]
        /\ ret[t].kind = "return"
        /\ ret[t].value.status = "completed"
        /\ ret[t].value.tokens_used = 170

\* C6: a batch request with descriptors t1..tn is answered by the batch
\* envelope with total_tasks = n and n results in list order, results[i]
\* being the envelope of ti (its agent, its task_type, its task_id when
\* preset), whatever succeeds or fails per item.
C6_BatchOrder ==
    \A t \in Threads :
        (route[t] = "batch" /\ pc[t] = "responded" /\ idx[t] >= 1
            /\ \A i \in 1 .. Len(tasks[t]) : tasks[t][i].k = "dict") =>
            /\ resp[t].status = 200
            /\ resp[t].body.total_tasks = Len(tasks[t])
            /\ Len(resp[t].body.results) = Len(tasks[t])
            /\ \A i \in 1 .. Len(tasks[t]) :
                  LET env == resp[t].body.results[i]
                      d == tasks[t][i]
                  IN  /\ env.agent = WantedAgent(d)
                      /\ env.task_type = WantedType(d)
                      /\ Truthy(WantedId(d)) => env.task_id = WantedId(d)

\* The fields of a task that process_agent_task must leave alone.
Frame(t) ==
    /\ task[t].agent_name = task0[t].agent_name
    /\ task[t].task_type = task0[t].task_type
    /\ task[t].content = task0[t].content
    /\ task[t].priority = task0[t].priority
    /\ task[t].context = task0[t].context

\* The envelope names the task as it is after the call.
EnvelopeOfTask(t) ==
    (pc[t] = "returned" /\ ret[t].kind = "return") =>
        /\ ret[t].value.task_id = task[t].task_id
        /\ ret[t].value.agent = task[t].agent_name
        /\ ret[t].value.task_type = task[t].task_type

\* C7 as stated: the other fields never change, and a task_id the caller
\* supplied (anything but None) comes back unchanged.
C7_SuppliedIdKept ==
    \A t \in Threads :
        task[t] # NoTask =>
            /\ Frame(t)
            /\ task0[t].task_id # Null => task[t].task_id = task0[t].task_id
            /\ EnvelopeOfTask(t)

\* C7, amended: process_agent_task never changes agent_name, task_type,
\* content, priority or context; it changes task_id at most once, and only
\* when the task_id it was given is None or empty (falsy), to an id it
\* generated; a non-empty task_id comes back unchanged; the envelope's
\* task_id, agent and task_type are the task's after the call.
C7_FrameAndId ==
    /\ [](\A t \in Threads :
            task[t] # NoTask =>
                /\ Frame(t)
                /\ Truthy(task0[t].task_id) => task[t].task_id = task0[t].task_id
                /\ task[t].task_id # task0[t].task_id =>
                      \E i \in 1 .. Len(generated) :
                          task[t].task_id = Str(generated[i].text)
                /\ EnvelopeOfTask(t))
    /\ [][\A t \in Threads :
            (pc[t] \notin { "idle", "loop" } /\ task[t] # NoTask
                /\ task'[t].task_id # task[t].task_id) =>
                /\ task[t].task_id = task0[t].task_id
                /\ ~Truthy(task[t].task_id)]_vars

C7_EmptyIdReplaced ==
    \E t \in Threads :
        /\ pc[t] = "returned"
        /\ task0[t].task_id = Str("")
        /\ ret[t].kind = "return"
        /\ ret[t].value.task_id = task[t].task_id
        /\ task[t].task_id # Str("")

\* C8: /health answers 200 with "healthy" exactly when the probe returned
\* HTTP 200, "degraded" for any other status and for any exception.
C8_HealthyIff200 ==
    \A t \in Threads :
        (route[t] = "health" /\ pc[t] = "responded") =>
            /\ resp[t].status = 200
            /\ resp[t].body.status \in { "healthy", "degraded" }
            /\ resp[t].body.status = "healthy" <=>
                  (outcome[t].kind = "response" /\ outcome[t].status = 200)

C8_Created201Degraded ==
    \E t \in Threads :
        /\ route[t] = "health"
        /\ pc[t] = "responded"
        /\ outcome[t] = [kind |-> "response", status |-> 201]
        /\ resp[t].body.status = "degraded"

\* C9: every generated id is {agent_name}_{8 digits}_{6 digits}_{3 digits},
\* the sequence part exactly three digits, whatever the counter has reached.
C9_ThreeDigitSequence ==
    \A i \in 1 .. Len(generated) :
        /\ Len(generated[i].date) = 8
        /\ Len(generated[i].time) = 6
        /\ Len(generated[i].seq) = 3

====
